---- MODULE Spec2Model ----
(***************************************************************************)
(* unifi2netbox (main.py): reconciliation of the devices reported by UniFi *)
(* controllers against NetBox, as a state machine.                         *)
(*                                                                         *)
(*   - the site mapper (load_site_mapping, get_netbox_site_name,          *)
(*     match_sites_to_netbox) as operators;                                *)
(*   - the three nested ThreadPoolExecutor tiers (process_all_controllers, *)
(*     process_controller, process_site), one action per step of a thread; *)
(*   - process_device, one action per call to the NetBox API;              *)
(*   - parse_successful_log_entries as an operator over log lines.         *)
(***************************************************************************)
EXTENDS Integers, Sequences, FiniteSets, TLC

\* main.py:24-26, the sizes of the worker pools.
MAX_CONTROLLER_THREADS == 5
MAX_SITE_THREADS == 8
MAX_DEVICE_THREADS == 8
MAX_THREADS == 8
POOL_MAXSIZE == 50

\* Bounds of the model.
MaxRuns == 2          \* runs of the full reconcile in sequence
MaxFaults == 1        \* NetBox API calls that fail by an injected fault
StressExtra == 1      \* units beyond the pool size in the pool scenarios
MaxLogLines == 2      \* lines of a log file handed to the audit extractor

VARIABLES
  world,      \* the world of the run (by name): controllers' data, config.yaml, NetBox schema
  run,        \* number of the current run of process_all_controllers
  faulted,    \* <<run, device unit>> pairs: a NetBox call of the unit failed in that run
  mainPc,     \* process_all_controllers: [pc, i]
  ctl,        \* process_controller, per controller: [pc, i]
  site,       \* process_site, per (controller, site): [pc, i, nb]
  dev,        \* process_device, per (controller, site, device): pc and locals
  nb,         \* the NetBox inventory: vrfs, prefixes, device types, devices, ...
  creates,    \* create calls issued in this run, per device unit: set of entity kinds
  siteFile,   \* config/site_mapping.yaml
  mapIn,      \* site mapper under test: [name, config]
  mapOut,     \* site mapper under test: the resolved name
  logFile,    \* audit extractor under test: the lines of the log file
  parsed,     \* audit extractor under test: the returned dictionaries
  flatEnd,    \* the inventory process_all_sites left, for the comparison of the entry points
  boot        \* the start-up of the program (__main__): [pc, missing, netbox, exit, ...]

vars == <<world, run, faulted, mainPc, ctl, site, dev, nb, creates, siteFile,
          mapIn, mapOut, logFile, parsed, flatEnd, boot>>

orchVars == <<world, run, faulted, mainPc, ctl, site, dev, nb, creates, siteFile>>
mapVars == <<mapIn, mapOut>>
logVars == <<logFile, parsed>>
flatVars == <<flatEnd>>
bootVars == <<boot>>

(***************************************************************************)
(* Small helpers.                                                          *)
(***************************************************************************)
Min(S) == CHOOSE x \in S : \A y \in S : x <= y

EmptyMap == [k \in {} |-> ""]

\* A dictionary key that is absent (device.get(...) returns None, device[...] raises).
NoKey == "<absent>"

(***************************************************************************)
(* Site mapper, main.py:47-150.                                            *)
(*   config: [unifi: BOOLEAN,  hasMappings, mappings,  hasUse, use]        *)
(*   file:   [exists: BOOLEAN, ok: BOOLEAN, map]                           *)
(***************************************************************************)
NoConfig ==
  [unifi |-> FALSE, hasMappings |-> FALSE, mappings |-> EmptyMap,
   hasUse |-> FALSE, use |-> FALSE]

\* main.py:80-82, the file written when site_mapping.yaml does not exist.
DefaultSiteFile == [exists |-> TRUE, ok |-> TRUE, map |-> [k \in {"Default"} |-> "Default"]]

\* main.py:59-64, the inline mappings of config.yaml.
ConfigMappings(config) ==
  IF config.unifi /\ config.hasMappings /\ DOMAIN config.mappings # {}
  THEN config.mappings ELSE EmptyMap

\* main.py:67-69
UseFileMapping(config) == config.unifi /\ config.hasUse /\ config.use

\* main.py:76-82, the file after load_site_mapping ran.
SiteFileAfterLoad(config, file) ==
  IF UseFileMapping(config) /\ ~file.exists THEN DefaultSiteFile ELSE file

\* load_site_mapping with the file's entries written over the config's.
load_site_mapping_file_first(config, file) ==
  LET site_mapping == ConfigMappings(config)
      f == SiteFileAfterLoad(config, file)
  IN  IF UseFileMapping(config) /\ f.ok
      THEN [k \in (DOMAIN site_mapping) \cup (DOMAIN f.map) |->
              IF k \in DOMAIN f.map THEN f.map[k] ELSE site_mapping[k]]
      ELSE site_mapping

\* main.py:47-96
load_site_mapping(config, file) ==
  LET site_mapping == ConfigMappings(config)
      f == SiteFileAfterLoad(config, file)
  IN  IF UseFileMapping(config) /\ f.ok
      THEN [k \in (DOMAIN site_mapping) \cup (DOMAIN f.map) |->
              IF k \in DOMAIN site_mapping THEN site_mapping[k] ELSE f.map[k]]
      ELSE site_mapping

\* main.py:98-111
get_netbox_site_name(unifi_site_name, config, file) ==
  LET site_mapping == load_site_mapping(config, file)
  IN  IF unifi_site_name \in DOMAIN site_mapping
      THEN site_mapping[unifi_site_name] ELSE unifi_site_name

\* main.py:125-150; NoKey is the None returned when no NetBox site matches.
match_sites_to_netbox(ubiquity_desc, netbox_sites_dict, config, file) ==
  LET netbox_site_name == get_netbox_site_name(ubiquity_desc, config, file)
  IN  IF netbox_site_name \in netbox_sites_dict THEN netbox_site_name ELSE NoKey

(***************************************************************************)
(* The data a run reads.                                                   *)
(*   device:     [name, serial, model, ip, ports]  (a UniFi device record) *)
(*   controller: [ok, sites], sites a sequence of [name, fetch, devices]   *)
(*   IP addresses are 8-bit numbers; InvalidIP is a string that            *)
(*   ipaddress.ip_address rejects.                                         *)
(***************************************************************************)
InvalidIP == -1

Port(n, m) == [name |-> n, media |-> m]

Device(n, s, m, a, p) == [name |-> n, serial |-> s, model |-> m, ip |-> a, ports |-> p]

UnifiSite(n, f, d) == [name |-> n, fetch |-> f, devices |-> d]

Controller(o, s) == [ok |-> o, sites |-> s]

dAp1 == Device("ap", "S1", "U6", 5, <<Port("eth0", "GE")>>)
dAp2 == Device("ap", "S2", "U6", 200, <<>>)
dSw3 == Device("sw", "S3", "USW", InvalidIP, <<Port("sfp", "SFP+"), Port("p1", "GE")>>)
dSw4 == Device("sw4", "S4", "USW", 7, <<>>)
dNoSerial == Device("nos", "", "U6", 6, <<>>)
dNoName == Device(NoKey, "S5", "U6", 6, <<>>)
dSerialAbsent == Device("nos2", NoKey, "U6", 6, <<>>)
dPorts == Device("sw5", "S6", "US8", 9,
                 <<Port("p1", "GE"), Port("p1", "GE"), Port("p2", "GE")>>)

\* NetBox before the first run: nothing but the sites, or the VRF of site HQ
\* with one prefix, 0/4 (addresses 0..15).
EmptyInventory ==
  [vrfs |-> {}, prefixes |-> {}, device_types |-> {}, interface_templates |-> {},
   devices |-> {}, interfaces |-> {}, ip_addresses |-> {}]

HqInventory ==
  [EmptyInventory EXCEPT !.vrfs = {[id |-> 1, name |-> "vrf_HQ"]},
                         !.prefixes = {[vrf |-> 1, net |-> 0, len |-> 4]}]

InlineConfig ==
  [unifi |-> TRUE, hasMappings |-> TRUE, mappings |-> [k \in {"hq"} |-> "HQ"],
   hasUse |-> FALSE, use |-> FALSE]

FileConfig ==
  [unifi |-> TRUE, hasMappings |-> FALSE, mappings |-> EmptyMap,
   hasUse |-> TRUE, use |-> TRUE]

NoSiteFile == [exists |-> FALSE, ok |-> TRUE, map |-> EmptyMap]

World(c, cfg, file, sites, role, inv) ==
  [ctrls |-> c, config |-> cfg, file |-> file, nbSites |-> sites,
   roleField |-> role, inv |-> inv]

\* Two controllers; site hq (mapped to HQ) with colliding names and a shared
\* new device type; site lab matches no NetBox site; the second controller
\* cannot be reached.
WorldCollision ==
  World(<<Controller(TRUE, <<UnifiSite("lab", "ok", <<dSw4>>),
                             UnifiSite("hq", "ok", <<dAp1, dAp2>>)>>),
          Controller(FALSE, <<UnifiSite("hq", "ok", <<dSw4>>)>>)>>,
        InlineConfig, NoSiteFile, {"HQ"}, "role", HqInventory)

\* An empty NetBox; two controllers whose sites resolve (one through the
\* mapping file) to the same NetBox site and report the same device.
WorldTwoSites ==
  World(<<Controller(TRUE, <<UnifiSite("hq", "ok", <<dSw4>>)>>),
          Controller(TRUE, <<UnifiSite("HQ", "ok", <<dSw4>>)>>)>>,
        FileConfig, [exists |-> TRUE, ok |-> TRUE, map |-> [k \in {"hq"} |-> "HQ"]],
        {"HQ", "Default"}, "device_role", EmptyInventory)

\* A NetBox whose device-creation schema exposes neither role field.
WorldNoRole ==
  World(<<Controller(TRUE, <<UnifiSite("HQ", "ok", <<dAp1, dSw4>>)>>)>>,
        NoConfig, NoSiteFile, {"HQ"}, "neither", EmptyInventory)

\* Records and sites that cannot be reconciled: a device without serial, a
\* device whose record has no name, a site the controller lists but cannot
\* open, a site whose device listing fails.
WorldOdd ==
  World(<<Controller(TRUE, <<UnifiSite("HQ", "ok", <<dSw4, dNoSerial, dNoName>>),
                             UnifiSite("Default", "error", <<>>),
                             UnifiSite("Lab", "none", <<dSw4>>)>>)>>,
        NoConfig, NoSiteFile, {"HQ", "Default", "Lab"}, "role", EmptyInventory)

\* A NetBox with two VRFs of the name of the site (the inconsistency
\* main.py:244-249 expects), the prefix in the first one, and a schema
\* exposing both role fields; a device with two ports of one name and a
\* device whose IP is no IP address.
WorldDupVrf ==
  World(<<Controller(TRUE, <<UnifiSite("HQ", "ok", <<dPorts, dSw3>>)>>)>>,
        NoConfig, NoSiteFile, {"HQ"}, "both",
        [HqInventory EXCEPT !.vrfs = @ \cup {[id |-> 2, name |-> "vrf_HQ"]}])

\* A NetBox with the VRF and prefix of site HQ and a device named sw4 at site Lab.
\* One controller: site hq resolves to HQ through the inline mappings of
\* config.yaml, site Lab by its own name, site Default cannot be opened.
WorldFlat ==
  World(<<Controller(TRUE, <<UnifiSite("hq", "ok", <<dAp1>>),
                             UnifiSite("Lab", "ok", <<dSw4>>),
                             UnifiSite("Default", "error", <<>>)>>)>>,
        InlineConfig, NoSiteFile, {"HQ", "Lab"}, "role",
        [HqInventory EXCEPT
           !.device_types = {[id |-> 1, model |-> "OLD"]},
           !.devices = {[id |-> 1, site |-> "Lab", serial |-> "S9", name |-> "sw4",
                         device_type |-> 1, role_key |-> "role", primary_ip4 |-> 0]}])

\* A NetBox where the IP address a device reports is assigned to the
\* interface of another device of the site.
WorldSameIp ==
  World(<<Controller(TRUE, <<UnifiSite("HQ", "ok", <<dAp1>>)>>)>>,
        NoConfig, NoSiteFile, {"HQ"}, "role",
        [HqInventory EXCEPT
           !.device_types = {[id |-> 1, model |-> "OLD"]},
           !.devices = {[id |-> 1, site |-> "HQ", serial |-> "S9", name |-> "old",
                         device_type |-> 1, role_key |-> "role", primary_ip4 |-> 1]},
           !.interfaces = {[id |-> 1, device |-> 1, name |-> "vlan.1", vrf |-> 1]},
           !.ip_addresses = {[id |-> 1, address |-> 5, len |-> 4, vrf |-> 1,
                              interface |-> 1]}])

\* More units than workers, one world per tier.
StressControllers ==
  World([c \in 1..(MAX_CONTROLLER_THREADS + StressExtra) |-> Controller(FALSE, <<>>)],
        NoConfig, NoSiteFile, {"HQ"}, "role", EmptyInventory)

StressSites ==
  World(<<Controller(TRUE, [s \in 1..(MAX_SITE_THREADS + StressExtra) |->
                               UnifiSite(ToString(s), "none", <<>>)])>>,
        NoConfig, NoSiteFile,
        {ToString(i) : i \in 1..(MAX_SITE_THREADS + StressExtra)}, "role", EmptyInventory)

StressDevices ==
  World(<<Controller(TRUE, <<UnifiSite("HQ", "ok",
            [k \in 1..(MAX_DEVICE_THREADS + StressExtra) |->
               IF k = 1 THEN dSerialAbsent ELSE dNoSerial])>>)>>,
        NoConfig, NoSiteFile, {"HQ"}, "role", EmptyInventory)

\* The variable world holds the name of the world of the behaviour.
Worlds == {"collision", "two_sites", "no_role", "dup_vrf", "odd", "same_ip",
           "stress_controllers", "stress_sites", "stress_devices"}

WorldOf(name) ==
  CASE name = "collision" -> WorldCollision
    [] name = "two_sites" -> WorldTwoSites
    [] name = "no_role" -> WorldNoRole
    [] name = "dup_vrf" -> WorldDupVrf
    [] name = "odd" -> WorldOdd
    [] name = "same_ip" -> WorldSameIp
    [] name = "stress_controllers" -> StressControllers
    [] name = "stress_sites" -> StressSites
    [] name = "stress_devices" -> StressDevices
    [] name = "flat" -> WorldFlat

W == WorldOf(world)

(***************************************************************************)
(* The units of work of a run.                                             *)
(***************************************************************************)
Ctrls == DOMAIN W.ctrls

SitesOf(c) == DOMAIN W.ctrls[c].sites

SiteUnits == UNION {{<<c, s>> : s \in SitesOf(c)} : c \in Ctrls}

DevicesOf(c, s) == DOMAIN W.ctrls[c].sites[s].devices

DevUnits == UNION {{<<x[1], x[2], k>> : k \in DevicesOf(x[1], x[2])} : x \in SiteUnits}

\* The UniFi record of a device unit, and the NetBox site it is reconciled at.
Rec(u) == W.ctrls[u[1]].sites[u[2]].devices[u[3]]

NbSite(u) == site[<<u[1], u[2]>>].nb

NewCtl == [pc |-> "new", i |-> 1]

NewSite == [pc |-> "new", i |-> 1, nb |-> ""]

\* tries: the device create calls of the reconciliation, [name, res] each;
\* marks: what else it did (TmplFailed(j): the template create of port j
\* was refused, "prefix_lookup": the prefixes were filtered).
NewDev ==
  [pc |-> "new", n |-> 0, vrf |-> 0, dt |-> 0, nbdev |-> 0, port |-> 0,
   mask |-> 0, iface |-> 0, ip |-> 0, out |-> "", tries |-> <<>>, marks |-> {}]

\* A finished process_device: its locals are gone, its outcome is kept.
Finished(d, outcome) ==
  [NewDev EXCEPT !.pc = "done", !.n = d.n, !.out = outcome,
                 !.tries = d.tries, !.marks = d.marks]

(***************************************************************************)
(* ThreadPoolExecutor: a submitted unit waits in the executor's FIFO queue *)
(* until one of its max_workers threads is free.                           *)
(***************************************************************************)
WorkerFreeUnbounded(busy, max_workers) == TRUE

WorkerFree(busy, max_workers) == Cardinality(busy) < max_workers

CtlBusy == {c \in Ctrls : ctl[c].pc \in {"run", "submit"}}

SiteBusy(c) == {s \in SitesOf(c) : site[<<c, s>>].pc \in {"run", "submit"}}

\* A worker that is not returned to the pool when its unit ends.
DevBusyNeverFreed(c, s) == {k \in DevicesOf(c, s) : dev[<<c, s, k>>].pc \notin {"new", "queued"}}

DevBusy(c, s) == {k \in DevicesOf(c, s) : dev[<<c, s, k>>].pc \notin {"new", "queued", "done"}}

\* futures of process_controller / process_site: the units submitted so far.
SubmittedSites(c) == {s \in SitesOf(c) : site[<<c, s>>].pc # "new"}

SubmittedDevices(c, s) == {k \in DevicesOf(c, s) : dev[<<c, s, k>>].pc # "new"}

(***************************************************************************)
(* process_all_controllers, main.py:464-482.                               *)
(***************************************************************************)
\* main.py:471-474, one executor.submit(process_controller, ...)
MainSubmit ==
  /\ mainPc.pc = "submit"
  /\ mainPc.i \in Ctrls
  /\ ctl' = [ctl EXCEPT ![mainPc.i].pc = "queued"]
  /\ mainPc' = [mainPc EXCEPT !.i = @ + 1]
  /\ UNCHANGED <<world, run, faulted, site, dev, nb, creates, siteFile, mapVars, logVars, flatVars, bootVars>>

AllControllersDone == \A c \in Ctrls : ctl[c].pc = "done"

\* main.py:477-482 and the exit of the with block: every future has a result.
MainJoin ==
  /\ mainPc.pc = "submit"
  /\ mainPc.i \notin Ctrls
  /\ AllControllersDone
  /\ mainPc' = [mainPc EXCEPT !.pc = "done"]
  /\ UNCHANGED <<world, run, faulted, ctl, site, dev, nb, creates, siteFile, mapVars, logVars, flatVars, bootVars>>

\* A worker thread of the controller pool takes the next queued controller.
StartController(c) ==
  /\ ctl[c].pc = "queued"
  /\ \A b \in Ctrls : b < c => ctl[b].pc # "queued"
  /\ WorkerFree(CtlBusy, MAX_CONTROLLER_THREADS)
  /\ ctl' = [ctl EXCEPT ![c].pc = "run"]
  /\ UNCHANGED <<world, run, faulted, mainPc, site, dev, nb, creates, siteFile, mapVars, logVars, flatVars, bootVars>>

(***************************************************************************)
(* process_controller, main.py:427-462.                                    *)
(***************************************************************************)
\* The sites are submitted whether or not the controller answered.
ControllerConnectAlways(c) ==
  /\ ctl[c].pc = "run"
  /\ ctl' = [ctl EXCEPT ![c].pc = "submit"]
  /\ UNCHANGED <<world, run, faulted, mainPc, site, dev, nb, creates, siteFile, mapVars, logVars, flatVars, bootVars>>

\* main.py:435-444: Unifi(...) and unifi.sites; an exception ends the
\* controller at main.py:461-462.
ControllerConnect(c) ==
  /\ ctl[c].pc = "run"
  /\ ctl' = [ctl EXCEPT ![c].pc = IF W.ctrls[c].ok THEN "submit" ELSE "done"]
  /\ UNCHANGED <<world, run, faulted, mainPc, site, dev, nb, creates, siteFile, mapVars, logVars, flatVars, bootVars>>

\* The loop over the sites with break in the place of continue (main.py:454).
ControllerSubmitBreaks(c) ==
  /\ ctl[c].pc = "submit"
  /\ ctl[c].i \in SitesOf(c)
  /\ LET s == ctl[c].i
         nb_site == match_sites_to_netbox(W.ctrls[c].sites[s].name,
                                          W.nbSites, W.config, siteFile)
     IN  /\ site' = IF nb_site = NoKey THEN site
                    ELSE [site EXCEPT ![<<c, s>>] = [pc |-> "queued", i |-> 1, nb |-> nb_site]]
         /\ siteFile' = SiteFileAfterLoad(W.config, siteFile)
         /\ ctl' = [ctl EXCEPT ![c].i = IF nb_site = NoKey
                                        THEN Len(W.ctrls[c].sites) + 1 ELSE @ + 1]
  /\ UNCHANGED <<world, run, faulted, mainPc, dev, nb, creates, mapVars, logVars, flatVars, bootVars>>

\* main.py:448-456, one iteration of the loop over sites.items().
ControllerSubmit(c) ==
  /\ ctl[c].pc = "submit"
  /\ ctl[c].i \in SitesOf(c)
  /\ LET s == ctl[c].i
         nb_site == match_sites_to_netbox(W.ctrls[c].sites[s].name,
                                          W.nbSites, W.config, siteFile)
     IN  /\ site' = IF nb_site = NoKey THEN site
                    ELSE [site EXCEPT ![<<c, s>>] = [pc |-> "queued", i |-> 1, nb |-> nb_site]]
         /\ siteFile' = SiteFileAfterLoad(W.config, siteFile)
  /\ ctl' = [ctl EXCEPT ![c].i = @ + 1]
  /\ UNCHANGED <<world, run, faulted, mainPc, dev, nb, creates, mapVars, logVars, flatVars, bootVars>>

AllSitesDone(c) == \A s \in SubmittedSites(c) : site[<<c, s>>].pc = "done"

\* main.py:459-460 and the exit of the with block.
ControllerJoin(c) ==
  /\ ctl[c].pc = "submit"
  /\ ctl[c].i \notin SitesOf(c)
  /\ AllSitesDone(c)
  /\ ctl' = [ctl EXCEPT ![c].pc = "done"]
  /\ UNCHANGED <<world, run, faulted, mainPc, site, dev, nb, creates, siteFile, mapVars, logVars, flatVars, bootVars>>

\* A worker thread of the controller's site pool takes the next queued site.
StartSite(c, s) ==
  /\ site[<<c, s>>].pc = "queued"
  /\ \A b \in SitesOf(c) : b < s => site[<<c, b>>].pc # "queued"
  /\ WorkerFree(SiteBusy(c), MAX_SITE_THREADS)
  /\ site' = [site EXCEPT ![<<c, s>>].pc = "run"]
  /\ UNCHANGED <<world, run, faulted, mainPc, ctl, dev, nb, creates, siteFile, mapVars, logVars, flatVars, bootVars>>

(***************************************************************************)
(* process_site, main.py:399-425.                                          *)
(***************************************************************************)
\* main.py:406-410: unifi.site(site_name) and site.device.all(); no site
\* (main.py:423) or an exception (main.py:424-425) ends the site.
SiteFetch(c, s) ==
  /\ site[<<c, s>>].pc = "run"
  /\ site' = [site EXCEPT ![<<c, s>>].pc =
                IF W.ctrls[c].sites[s].fetch = "ok" THEN "submit" ELSE "done"]
  /\ UNCHANGED <<world, run, faulted, mainPc, ctl, dev, nb, creates, siteFile, mapVars, logVars, flatVars, bootVars>>

\* main.py:414-415, one executor.submit(process_device, ...)
SiteSubmit(c, s) ==
  /\ site[<<c, s>>].pc = "submit"
  /\ site[<<c, s>>].i \in DevicesOf(c, s)
  /\ dev' = [dev EXCEPT ![<<c, s, site[<<c, s>>].i>>].pc = "queued"]
  /\ site' = [site EXCEPT ![<<c, s>>].i = @ + 1]
  /\ UNCHANGED <<world, run, faulted, mainPc, ctl, nb, creates, siteFile, mapVars, logVars, flatVars, bootVars>>

AllDevicesDoneNoWait(c, s) == TRUE

AllDevicesDone(c, s) == \A k \in SubmittedDevices(c, s) : dev[<<c, s, k>>].pc = "done"

\* main.py:417-421 and the exit of the with block: every future has a
\* result; an exception a future holds is logged at main.py:421.
SiteJoin(c, s) ==
  /\ site[<<c, s>>].pc = "submit"
  /\ site[<<c, s>>].i \notin DevicesOf(c, s)
  /\ AllDevicesDone(c, s)
  /\ site' = [site EXCEPT ![<<c, s>>].pc = "done"]
  /\ UNCHANGED <<world, run, faulted, mainPc, ctl, dev, nb, creates, siteFile, mapVars, logVars, flatVars, bootVars>>

\* A worker thread of the site's device pool takes the next queued device.
StartDevice(u) ==
  /\ dev[u].pc = "queued"
  /\ \A b \in DevicesOf(u[1], u[2]) : b < u[3] => dev[<<u[1], u[2], b>>].pc # "queued"
  /\ WorkerFree(DevBusy(u[1], u[2]), MAX_DEVICE_THREADS)
  /\ dev' = [dev EXCEPT ![u].pc = "begin", ![u].n = @ + 1]
  /\ UNCHANGED <<world, run, faulted, mainPc, ctl, site, nb, creates, siteFile, mapVars, logVars, flatVars, bootVars>>

(***************************************************************************)
(* The NetBox API as process_device uses it.  An id is the number of the   *)
(* record in its table.  NetBox enforces: one device type per model of a   *)
(* manufacturer, one device name per site, one IP address per VRF, a       *)
(* primary IP assigned to an interface of the device; it does              *)
(* not enforce unique VRF names (main.py:244-249 handles the duplicates)   *)
(* nor unique serials.                                                     *)
(***************************************************************************)
NextId(table) == Cardinality(table) + 1

\* main.py:237
VrfName(site_name) == "vrf_" \o site_name

VrfsNamed(name) == {v \in nb.vrfs : v.name = name}

TypesOf(model) == {t \in nb.device_types : t.model = model}

DevicesBySerial(site_name, serial) ==
  {x \in nb.devices : x.site = site_name /\ x.serial = serial}

NameTaken(site_name, name) == \E x \in nb.devices : x.site = site_name /\ x.name = name

Pow2(n) == IF n = 0 THEN 1 ELSE IF n = 1 THEN 2 ELSE IF n = 2 THEN 4
           ELSE IF n = 3 THEN 8 ELSE IF n = 4 THEN 16 ELSE IF n = 5 THEN 32
           ELSE IF n = 6 THEN 64 ELSE IF n = 7 THEN 128 ELSE 256

PrefixContains(p, a) == (a \div Pow2(8 - p.len)) = (p.net \div Pow2(8 - p.len))

\* main.py:350, nb.ipam.prefixes.filter(contains=ip, vrf_id=vrf.id)
PrefixesFor(a, vrf) == {p \in nb.prefixes : p.vrf = vrf /\ PrefixContains(p, a)}

\* main.py:354-358, the first prefix returned (the shortest one).
FirstPrefix(ps) == CHOOSE p \in ps : \A q \in ps : p.len <= q.len

InterfacesOf(device_id) == {x \in nb.interfaces : x.device = device_id /\ x.name = "vlan.1"}

\* main.py:375, the lookup by address, VRF and tenant (one tenant per run).
AddressesAt(a, mask, vrf) ==
  {x \in nb.ip_addresses : x.address = a /\ x.len = mask /\ x.vrf = vrf}

\* main.py:272-274, the next port of media "GE" at or after index from; 0 if none.
NextGE(ports, from) ==
  LET ge == {j \in DOMAIN ports : j >= from /\ ports[j].media = "GE"}
  IN  IF ge = {} THEN 0 ELSE Min(ge)

\* main.py:232, not device.get("serial")
MissingSerialNoneOnly(device) == device.serial = NoKey

MissingSerial(device) == device.serial \in {NoKey, ""}

\* main.py:330, the name of the second create.
RetryNameUnchanged(device) == device.name

RetryName(device) == device.name \o "_" \o device.serial

(***************************************************************************)
(* process_device, main.py:220-397: one action per NetBox call, with the   *)
(* local code that follows it.                                             *)
(***************************************************************************)
\* The locals of unit u after a lookup of an entity by its key that found
\* it or not: the answer is kept in marks and the unit goes on at next.
Looked(u, kind, found, next) ==
  [dev[u] EXCEPT !.pc = next,
                 !.marks = @ \cup {kind \o (IF found THEN "_found" ELSE "_absent")}]

\* One step of unit u: its new locals, the new inventory, the create calls issued.
Step(u, d, inventory, kinds) ==
  /\ dev' = [dev EXCEPT ![u] = d]
  /\ nb' = inventory
  /\ creates' = [creates EXCEPT ![u] = @ \cup kinds]
  /\ UNCHANGED <<world, run, faulted, mainPc, ctl, site, siteFile, mapVars, logVars, flatVars, bootVars>>

\* main.py:222-234.  A record without name raises KeyError at 223 and again
\* in the handler at 397: the future holds the exception.
DevBegin(u) ==
  /\ dev[u].pc = "begin"
  /\ Step(u, IF Rec(u).name = NoKey THEN Finished(dev[u], "raised")
             ELSE IF MissingSerial(Rec(u)) THEN Finished(dev[u], "no_serial")
             ELSE [dev[u] EXCEPT !.pc = "vrf_get"],
          nb, {})

\* Several matches end the reconciliation (the ValueError is not handled).
VrfGetAborts(u) ==
  /\ dev[u].pc = "vrf_get"
  /\ LET found == VrfsNamed(VrfName(NbSite(u)))
     IN  Step(u, IF found = {} THEN [dev[u] EXCEPT !.pc = "vrf_create"]
                 ELSE IF Cardinality(found) > 1 THEN Finished(dev[u], "error")
                 ELSE [dev[u] EXCEPT !.pc = "dt_get",
                                     !.vrf = Min({v.id : v \in found})],
              nb, {})

\* main.py:241-252: vrfs.get(name=...); on several matches vrfs.filter and
\* the first one.
VrfGet(u) ==
  /\ dev[u].pc = "vrf_get"
  /\ LET found == VrfsNamed(VrfName(NbSite(u)))
     IN  Step(u, IF found = {} THEN Looked(u, "vrf", FALSE, "vrf_create")
                 ELSE [Looked(u, "vrf", TRUE, "dt_get") EXCEPT
                         !.vrf = Min({v.id : v \in found})],
              nb, {})

\* main.py:254-258
VrfCreate(u) ==
  /\ dev[u].pc = "vrf_create"
  /\ LET id == NextId(nb.vrfs)
     IN  Step(u, [dev[u] EXCEPT !.pc = "dt_get", !.vrf = id],
              [nb EXCEPT !.vrfs = @ \cup {[id |-> id, name |-> VrfName(NbSite(u))]}],
              {"vrf"})

\* The device type is created whatever the lookup found.
DtGetCreatesAnyway(u) ==
  /\ dev[u].pc = "dt_get"
  /\ Step(u, Looked(u, "device_type", TypesOf(Rec(u).model) # {}, "dt_create"), nb, {})

\* main.py:262-263
DtGet(u) ==
  /\ dev[u].pc = "dt_get"
  /\ LET found == TypesOf(Rec(u).model)
     IN  Step(u, IF found = {} THEN Looked(u, "device_type", FALSE, "dt_create")
                 ELSE [Looked(u, "device_type", TRUE, "dev_get") EXCEPT
                         !.dt = Min({t.id : t \in found})],
              nb, {})

\* main.py:264-272: the create, refused (RequestError, return) when the
\* model exists by now.
DtCreate(u) ==
  /\ dev[u].pc = "dt_create"
  /\ LET id == NextId(nb.device_types)
         ge == NextGE(Rec(u).ports, 1)
     IN  IF TypesOf(Rec(u).model) # {}
         THEN Step(u, Finished(dev[u], "dt_failed"), nb, {"device_type"})
         ELSE Step(u, [dev[u] EXCEPT !.pc = IF ge = 0 THEN "dev_get" ELSE "tmpl",
                                     !.dt = id, !.port = ge],
                   [nb EXCEPT !.device_types = @ \cup {[id |-> id, model |-> Rec(u).model]}],
                   {"device_type"})

TmplFailed(j) == "tmpl_failed_" \o ToString(j)

\* A refused template create ends the reconciliation.
AfterTemplateReturns(u, refused) ==
  LET ge == NextGE(Rec(u).ports, dev[u].port + 1)
  IN  IF refused
      THEN Finished([dev[u] EXCEPT !.marks = @ \cup {TmplFailed(dev[u].port)}],
                    "template_failed")
      ELSE [dev[u] EXCEPT !.pc = IF ge = 0 THEN "dev_get" ELSE "tmpl", !.port = ge]

\* main.py:284-285: a refused template create is logged; the loop goes on
\* with the next port, and with the device after the last one.
AfterTemplate(u, refused) ==
  LET ge == NextGE(Rec(u).ports, dev[u].port + 1)
  IN  [dev[u] EXCEPT !.pc = IF ge = 0 THEN "dev_get" ELSE "tmpl", !.port = ge,
                     !.marks = IF refused THEN @ \cup {TmplFailed(dev[u].port)} ELSE @]

\* main.py:273-285, the create of the template of one GE port; NetBox
\* refuses (RequestError) a second template of the same name for the type.
TmplCreate(u) ==
  /\ dev[u].pc = "tmpl"
  /\ LET id == NextId(nb.interface_templates)
         name == Rec(u).ports[dev[u].port].name
     IN  IF \E t \in nb.interface_templates : t.device_type = dev[u].dt /\ t.name = name
         THEN Step(u, AfterTemplate(u, TRUE), nb, {"interface_template"})
         ELSE Step(u, AfterTemplate(u, FALSE),
                   [nb EXCEPT !.interface_templates = @ \cup
                      {[id |-> id, device_type |-> dev[u].dt, name |-> name]}],
                   {"interface_template"})

\* The reconciliation of a device that exists goes on with its IP.
DevGetResumes(u) ==
  /\ dev[u].pc = "dev_get"
  /\ LET found == DevicesBySerial(NbSite(u), Rec(u).serial)
     IN  Step(u, IF found = {} THEN Looked(u, "device", FALSE, "fields")
                 ELSE [Looked(u, "device", TRUE, "prefix") EXCEPT
                         !.nbdev = Min({x.id : x \in found})],
              nb, {})

\* main.py:289-291; devices.get raises ValueError on several matches,
\* caught at main.py:396.
DevGet(u) ==
  /\ dev[u].pc = "dev_get"
  /\ LET found == DevicesBySerial(NbSite(u), Rec(u).serial)
     IN  Step(u, IF found = {} THEN Looked(u, "device", FALSE, "fields")
                 ELSE IF Cardinality(found) = 1
                      THEN Finished(Looked(u, "device", TRUE, "done"), "exists")
                 ELSE Finished(Looked(u, "device", TRUE, "done"), "error"),
              nb, {})

\* The two tests of main.py:306-311 in the other order.
RoleKeyDeviceRoleFirst(fields) ==
  IF fields \in {"device_role", "both"} THEN "device_role"
  ELSE IF fields = "role" THEN "role"
  ELSE NoKey

\* main.py:306-311, the key of device_data that carries the role, for the
\* fields the schema exposes ("role", "device_role", "both", "neither").
RoleKey(fields) ==
  IF fields \in {"role", "both"} THEN "role"
  ELSE IF fields = "device_role" THEN "device_role"
  ELSE NoKey

\* main.py:304-315, get_postable_fields; with neither field the log call at
\* 313 raises NameError, caught at main.py:396.
Fields(u) ==
  /\ dev[u].pc = "fields"
  /\ Step(u, IF RoleKey(W.roleField) = NoKey THEN Finished(dev[u], "error")
             ELSE [dev[u] EXCEPT !.pc = "dev_create"],
          nb, {})

\* The device record NetBox stores for unit u under a name.
NewDevice(u, id, name) ==
  [id |-> id, site |-> NbSite(u), serial |-> Rec(u).serial, name |-> name,
   device_type |-> dev[u].dt, role_key |-> RoleKey(W.roleField), primary_ip4 |-> 0]

\* The prefix lookup without the validation of the IP before it.
AfterDeviceUnvalidated(u, id) == [dev[u] EXCEPT !.pc = "prefix", !.nbdev = id]

\* main.py:343-348, after the device exists: the IP is validated.
AfterDevice(u, id) ==
  IF Rec(u).ip = InvalidIP THEN Finished(dev[u], "invalid_ip")
  ELSE [dev[u] EXCEPT !.pc = "prefix", !.nbdev = id]

\* main.py:319 and 333: one more nb.dcim.devices.create call of unit u.
Tried(u, name, res) == Append(dev[u].tries, [name |-> name, res |-> res])

\* The second create is issued whatever the first one answered.
DevCreateRetriesAnyway(u) ==
  /\ dev[u].pc = "dev_create"
  /\ LET id == NextId(nb.devices)
         name == Rec(u).name
     IN  IF NameTaken(NbSite(u), name)
         THEN Step(u, [dev[u] EXCEPT !.pc = "dev_retry",
                                     !.tries = Tried(u, name, "name_conflict")],
                   nb, {"device"})
         ELSE Step(u, [dev[u] EXCEPT !.pc = "dev_retry",
                                     !.tries = Tried(u, name, "created")],
                   [nb EXCEPT !.devices = @ \cup {NewDevice(u, id, name)}],
                   {"device"})

\* main.py:317-327: the create; a name taken at the site is a RequestError
\* "Device name must be unique per site".
DevCreate(u) ==
  /\ dev[u].pc = "dev_create"
  /\ LET id == NextId(nb.devices)
         name == Rec(u).name
     IN  IF NameTaken(NbSite(u), name)
         THEN Step(u, [dev[u] EXCEPT !.pc = "dev_retry",
                                     !.tries = Tried(u, name, "name_conflict")],
                   nb, {"device"})
         ELSE Step(u, [AfterDevice(u, id) EXCEPT !.tries = Tried(u, name, "created")],
                   [nb EXCEPT !.devices = @ \cup {NewDevice(u, id, name)}],
                   {"device"})

\* main.py:328-338: the second create, under <name>_<serial>.
DevRetry(u) ==
  /\ dev[u].pc = "dev_retry"
  /\ LET id == NextId(nb.devices)
         name == RetryName(Rec(u))
     IN  IF NameTaken(NbSite(u), name)
         THEN Step(u, [Finished(dev[u], "device_failed") EXCEPT
                         !.tries = Tried(u, name, "name_conflict")],
                   nb, {"device"})
         ELSE Step(u, [AfterDevice(u, id) EXCEPT !.tries = Tried(u, name, "created")],
                   [nb EXCEPT !.devices = @ \cup {NewDevice(u, id, name)}],
                   {"device"})

\* main.py:350-358
PrefixFilterUnchecked(u) ==
  /\ dev[u].pc = "prefix"
  /\ LET prefixes == PrefixesFor(Rec(u).ip, dev[u].vrf)
     IN  Step(u, [dev[u] EXCEPT !.pc = "iface_get",
                    !.marks = @ \cup {"prefix_lookup"},
                    !.mask = IF prefixes = {} THEN 0 ELSE FirstPrefix(prefixes).len],
              nb, {})

PrefixFilter(u) ==
  /\ dev[u].pc = "prefix"
  /\ LET prefixes == PrefixesFor(Rec(u).ip, dev[u].vrf)
         d == [dev[u] EXCEPT !.marks = @ \cup {"prefix_lookup"}]
     IN  Step(u, IF prefixes = {} THEN Finished(d, "no_prefix")
                 ELSE [d EXCEPT !.pc = "iface_get", !.mask = FirstPrefix(prefixes).len],
              nb, {})

\* main.py:359-361
IfaceGet(u) ==
  /\ dev[u].pc = "iface_get"
  /\ LET found == InterfacesOf(dev[u].nbdev)
     IN  Step(u, IF found = {} THEN Looked(u, "interface", FALSE, "iface_create")
                 ELSE [Looked(u, "interface", TRUE, "ip_get") EXCEPT
                         !.iface = Min({x.id : x \in found})],
              nb, {})

\* main.py:362-374
IfaceCreate(u) ==
  /\ dev[u].pc = "iface_create"
  /\ LET id == NextId(nb.interfaces)
     IN  Step(u, [dev[u] EXCEPT !.pc = "ip_get", !.iface = id],
              [nb EXCEPT !.interfaces = @ \cup
                 {[id |-> id, device |-> dev[u].nbdev, name |-> "vlan.1", vrf |-> dev[u].vrf]}],
              {"interface"})

\* main.py:375-376; ip_addresses.get raises ValueError on several matches.
IpGet(u) ==
  /\ dev[u].pc = "ip_get"
  /\ LET found == AddressesAt(Rec(u).ip, dev[u].mask, dev[u].vrf)
     IN  Step(u, IF found = {} THEN Looked(u, "ip_address", FALSE, "ip_create")
                 ELSE IF Cardinality(found) = 1
                      THEN [Looked(u, "ip_address", TRUE, "save") EXCEPT
                              !.ip = Min({x.id : x \in found})]
                 ELSE Finished(Looked(u, "ip_address", TRUE, "done"), "error"),
              nb, {})

\* main.py:377-390: the create, refused (RequestError, return) when the
\* address exists in the VRF by now.
IpCreate(u) ==
  /\ dev[u].pc = "ip_create"
  /\ LET id == NextId(nb.ip_addresses)
     IN  IF \E x \in nb.ip_addresses : x.address = Rec(u).ip /\ x.vrf = dev[u].vrf
         THEN Step(u, Finished(dev[u], "ip_failed"), nb, {"ip_address"})
         ELSE Step(u, [dev[u] EXCEPT !.pc = "save", !.ip = id],
                   [nb EXCEPT !.ip_addresses = @ \cup
                      {[id |-> id, address |-> Rec(u).ip, len |-> dev[u].mask,
                        vrf |-> dev[u].vrf, interface |-> dev[u].iface]}],
                   {"ip_address"})

\* NetBox stores whatever primary IP it is given.
SaveUnvalidated(u) ==
  /\ dev[u].pc = "save"
  /\ Step(u, Finished(dev[u], "ok"),
          [nb EXCEPT !.devices = {IF x.id = dev[u].nbdev
                                  THEN [x EXCEPT !.primary_ip4 = dev[u].ip] ELSE x
                                  : x \in @}],
          {})

\* main.py:391-394.  NetBox refuses a primary IP that is not assigned to an
\* interface of the device; save() is in no try of its own, so the
\* RequestError is caught at main.py:396.
Save(u) ==
  /\ dev[u].pc = "save"
  /\ IF \E a \in nb.ip_addresses : \E x \in nb.interfaces :
          a.id = dev[u].ip /\ x.id = a.interface /\ x.device = dev[u].nbdev
     THEN Step(u, Finished(dev[u], "ok"),
               [nb EXCEPT !.devices = {IF x.id = dev[u].nbdev
                                       THEN [x EXCEPT !.primary_ip4 = dev[u].ip] ELSE x
                                       : x \in @}],
               {})
     ELSE Step(u, Finished(dev[u], "error"), nb, {})

\* The steps of process_device that call NetBox.
ApiSteps == {"vrf_get", "vrf_create", "dt_get", "dt_create", "tmpl", "dev_get", "fields",
             "dev_create", "dev_retry", "prefix", "iface_get", "iface_create",
             "ip_get", "ip_create", "save"}

FaultsThisRun == {f[2] : f \in {g \in faulted : g[1] = run}}

\* An exception of process_device cancels the futures still queued at its site.
ApiFaultCancels(u) ==
  /\ dev[u].pc \in ApiSteps
  /\ Cardinality(faulted) < MaxFaults
  /\ faulted' = faulted \cup {<<run, u>>}
  /\ dev' = [w \in DOMAIN dev |->
               IF w = u THEN Finished(dev[u], "error")
               ELSE IF w[1] = u[1] /\ w[2] = u[2] /\ dev[w].pc = "queued"
                    THEN Finished(dev[w], "cancelled")
               ELSE dev[w]]
  /\ UNCHANGED <<world, run, mainPc, ctl, site, nb, creates, siteFile, mapVars, logVars, flatVars, bootVars>>

\* A NetBox call of process_device fails (the API is unreachable, say): the
\* exception is caught and logged at main.py:396-397.
ApiFault(u) ==
  /\ dev[u].pc \in ApiSteps
  /\ Cardinality(faulted) < MaxFaults
  /\ faulted' = faulted \cup {<<run, u>>}
  /\ dev' = [dev EXCEPT ![u] = Finished(dev[u], "error")]
  /\ UNCHANGED <<world, run, mainPc, ctl, site, nb, creates, siteFile, mapVars, logVars, flatVars, bootVars>>

\* The create calls process_device wraps in "except RequestError", and the
\* kind of entity each one creates.
RequestSteps ==
  [dt_create |-> "device_type", tmpl |-> "interface_template", dev_create |-> "device",
   dev_retry |-> "device", iface_create |-> "interface", ip_create |-> "ip_address"]

\* NetBox answers a create call with an error for a reason of its own (the
\* data is rejected, say): pynetbox raises RequestError, which the handler
\* around the call catches (main.py:269-271, 284-285, 339-341, 336-338,
\* 371-374, 388-390).  At every other call a RequestError is an exception
\* like any other (ApiFault).
RequestFault(u) ==
  /\ dev[u].pc \in DOMAIN RequestSteps
  /\ Cardinality(faulted) < MaxFaults
  /\ faulted' = faulted \cup {<<run, u>>}
  /\ LET pc == dev[u].pc
     IN  /\ dev' = [dev EXCEPT ![u] =
                CASE pc = "dt_create" -> Finished(dev[u], "dt_failed")
                  [] pc = "tmpl" -> AfterTemplate(u, TRUE)
                  [] pc = "dev_create" ->
                       [Finished(dev[u], "device_failed") EXCEPT
                          !.tries = Tried(u, Rec(u).name, "refused")]
                  [] pc = "dev_retry" ->
                       [Finished(dev[u], "device_failed") EXCEPT
                          !.tries = Tried(u, RetryName(Rec(u)), "refused")]
                  [] pc = "iface_create" -> Finished(dev[u], "iface_failed")
                  [] pc = "ip_create" -> Finished(dev[u], "ip_failed")]
         /\ creates' = [creates EXCEPT ![u] = @ \cup {RequestSteps[pc]}]
  /\ UNCHANGED <<world, run, mainPc, ctl, site, nb, siteFile, mapVars, logVars, flatVars, bootVars>>

(***************************************************************************)
(* The reconcile is run again, against the same controllers and the        *)
(* inventory the run before left (main.py:682-683, the next invocation).   *)
(***************************************************************************)
NextRun ==
  /\ mainPc.pc = "done"
  /\ run < MaxRuns
  /\ run' = run + 1
  /\ mainPc' = [pc |-> "submit", i |-> 1]
  /\ ctl' = [c \in Ctrls |-> NewCtl]
  /\ site' = [x \in SiteUnits |-> NewSite]
  /\ dev' = [u \in DevUnits |-> NewDev]
  /\ creates' = [u \in DevUnits |-> {}]
  /\ UNCHANGED <<world, faulted, nb, siteFile, mapVars, logVars, flatVars, bootVars>>

\* The state before process_all_controllers of the first run starts.
InitOrch(w) ==
  /\ world = w
  /\ run = 1
  /\ faulted = {}
  /\ mainPc = [pc |-> "submit", i |-> 1]
  /\ ctl = [c \in Ctrls |-> NewCtl]
  /\ site = [x \in SiteUnits |-> NewSite]
  /\ dev = [u \in DevUnits |-> NewDev]
  /\ nb = W.inv
  /\ creates = [u \in DevUnits |-> {}]

NotCalled == "<not called>"

Init ==
  /\ \E w \in Worlds : InitOrch(w)
  /\ siteFile = W.file
  /\ mapIn = <<>>
  /\ mapOut = NotCalled
  /\ logFile = <<>>
  /\ parsed = <<>>
  /\ flatEnd = NotCalled
  /\ boot = NotCalled

Next ==
  \/ MainSubmit
  \/ MainJoin
  \/ NextRun
  \/ \E c \in Ctrls : StartController(c)
  \/ \E c \in Ctrls : ControllerConnect(c)
  \/ \E c \in Ctrls : ControllerSubmit(c)
  \/ \E c \in Ctrls : ControllerJoin(c)
  \/ \E x \in SiteUnits : StartSite(x[1], x[2])
  \/ \E x \in SiteUnits : SiteFetch(x[1], x[2])
  \/ \E x \in SiteUnits : SiteSubmit(x[1], x[2])
  \/ \E x \in SiteUnits : SiteJoin(x[1], x[2])
  \/ \E u \in DevUnits : StartDevice(u)
  \/ \E u \in DevUnits : DevBegin(u)
  \/ \E u \in DevUnits : VrfGet(u)
  \/ \E u \in DevUnits : VrfCreate(u)
  \/ \E u \in DevUnits : DtGet(u)
  \/ \E u \in DevUnits : DtCreate(u)
  \/ \E u \in DevUnits : TmplCreate(u)
  \/ \E u \in DevUnits : DevGet(u)
  \/ \E u \in DevUnits : Fields(u)
  \/ \E u \in DevUnits : DevCreate(u)
  \/ \E u \in DevUnits : DevRetry(u)
  \/ \E u \in DevUnits : PrefixFilter(u)
  \/ \E u \in DevUnits : IfaceGet(u)
  \/ \E u \in DevUnits : IfaceCreate(u)
  \/ \E u \in DevUnits : IpGet(u)
  \/ \E u \in DevUnits : IpCreate(u)
  \/ \E u \in DevUnits : Save(u)
  \/ \E u \in DevUnits : ApiFault(u)
  \/ \E u \in DevUnits : RequestFault(u)

Spec == Init /\ [][Next]_vars

\* Every call to the controllers and to NetBox returns and the threads of
\* the pools are scheduled: while some thread can take a step, a step is
\* taken.
\* The worlds of SpecLive: the one with a controller that fails, a site
\* that matches nothing and devices that race, the two whose devices end in
\* an error of their own, and the three with more units than workers.
InitLive ==
  /\ Init
  /\ world \in {"collision", "no_role", "same_ip", "stress_controllers",
                "stress_sites", "stress_devices"}

SpecLive == InitLive /\ [][Next]_vars /\ WF_vars(Next)

(***************************************************************************)
(* process_all_sites, main.py:502-545: the two-tier entry point.  It is    *)
(* given one connected controller; it fetches the devices of every site in *)
(* a pool of MAX_THREADS workers, then submits every device of every       *)
(* matching site to one pool of MAX_THREADS workers.  To compare the entry *)
(* points, the first run is process_all_sites and the second one is        *)
(* process_all_controllers on the same data, configuration and initial     *)
(* inventory.                                                              *)
(***************************************************************************)
\* main.py:505-513: unifi.sites, and one executor.submit(fetch_site_devices,
\* ...) per site (the dict comprehension).
FlatFetchSubmit ==
  /\ mainPc.pc = "flat"
  /\ IF SitesOf(1) = {}
     THEN /\ mainPc' = [mainPc EXCEPT !.pc = "done"]
          /\ UNCHANGED site
     ELSE /\ mainPc' = [mainPc EXCEPT !.pc = "collect"]
          /\ site' = [x \in SiteUnits |-> [site[x] EXCEPT !.pc = "queued"]]
  /\ UNCHANGED <<world, run, faulted, ctl, dev, nb, creates, siteFile, mapVars, logVars, flatVars, bootVars>>

\* A worker thread of the fetch pool takes the next queued site.
FlatStartFetch(s) ==
  /\ mainPc.pc = "collect"
  /\ site[<<1, s>>].pc = "queued"
  /\ \A b \in SitesOf(1) : b < s => site[<<1, b>>].pc # "queued"
  /\ WorkerFree({b \in SitesOf(1) : site[<<1, b>>].pc = "run"}, MAX_THREADS)
  /\ site' = [site EXCEPT ![<<1, s>>].pc = "run"]
  /\ UNCHANGED <<world, run, faulted, mainPc, ctl, dev, nb, creates, siteFile, mapVars, logVars, flatVars, bootVars>>

\* main.py:484-500 and 514-522: fetch_site_devices returns the devices, or
\* None; as_completed yields the future and sites[site_name] is set when
\* the site has devices: the dictionary is in the order of completion.
FlatFetched(s) ==
  /\ mainPc.pc = "collect"
  /\ site[<<1, s>>].pc = "run"
  /\ site' = [site EXCEPT ![<<1, s>>].pc = "fetched"]
  /\ mainPc' = [mainPc EXCEPT !.sites =
                  IF W.ctrls[1].sites[s].fetch = "ok" /\ DevicesOf(1, s) # {}
                  THEN Append(@, s) ELSE @]
  /\ UNCHANGED <<world, run, faulted, ctl, dev, nb, creates, siteFile, mapVars, logVars, flatVars, bootVars>>

\* main.py:524, the exit of the with block of the fetch pool.
FlatFetchJoin ==
  /\ mainPc.pc = "collect"
  /\ \A s \in SitesOf(1) : site[<<1, s>>].pc = "fetched"
  /\ mainPc' = [mainPc EXCEPT !.pc = "flat_submit", !.i = 1]
  /\ UNCHANGED <<world, run, faulted, ctl, site, dev, nb, creates, siteFile, mapVars, logVars, flatVars, bootVars>>

\* main.py:529-537, one iteration of the loop over sites.items(): the site
\* is matched without the configuration (config is None in
\* match_sites_to_netbox), and every device of a matching site is submitted.
FlatSubmit ==
  /\ mainPc.pc = "flat_submit"
  /\ mainPc.i \in DOMAIN mainPc.sites
  /\ LET s == mainPc.sites[mainPc.i]
         nb_site == match_sites_to_netbox(W.ctrls[1].sites[s].name,
                                          W.nbSites, NoConfig, siteFile)
     IN  /\ site' = IF nb_site = NoKey THEN site
                    ELSE [site EXCEPT ![<<1, s>>].nb = nb_site]
         /\ dev' = IF nb_site = NoKey THEN dev
                   ELSE [u \in DevUnits |->
                           IF u[2] = s THEN [dev[u] EXCEPT !.pc = "pending"] ELSE dev[u]]
         /\ siteFile' = SiteFileAfterLoad(NoConfig, siteFile)
  /\ mainPc' = [mainPc EXCEPT !.i = @ + 1]
  /\ UNCHANGED <<world, run, faulted, ctl, nb, creates, mapVars, logVars, flatVars, bootVars>>

\* A worker thread of the one device pool takes the next queued device:
\* none was submitted before it (its site comes first in the dictionary
\* sites, or it comes first in the list of the site).
FlatStartDevice(u) ==
  /\ dev[u].pc = "pending"
  /\ LET place(s) == Min({i \in DOMAIN mainPc.sites : mainPc.sites[i] = s})
     IN  \A v \in DevUnits :
           (dev[v].pc = "pending" /\ v # u) =>
             ~(\/ place(v[2]) < place(u[2])
               \/ v[2] = u[2] /\ v[3] < u[3])
  /\ WorkerFree({v \in DevUnits : dev[v].pc \notin {"new", "pending", "done"}}, MAX_THREADS)
  /\ dev' = [dev EXCEPT ![u].pc = "begin", ![u].n = @ + 1]
  /\ UNCHANGED <<world, run, faulted, mainPc, ctl, site, nb, creates, siteFile, mapVars, logVars, flatVars, bootVars>>

\* main.py:539-545 and the exit of the with block: every device future has
\* a result.
FlatJoin ==
  /\ mainPc.pc = "flat_submit"
  /\ mainPc.i \notin DOMAIN mainPc.sites
  /\ \A u \in DevUnits : dev[u].pc \in {"new", "done"}
  /\ mainPc' = [mainPc EXCEPT !.pc = "done"]
  /\ UNCHANGED <<world, run, faulted, ctl, site, dev, nb, creates, siteFile, mapVars, logVars, flatVars, bootVars>>

\* The inventory process_all_sites left is kept, and process_all_controllers
\* is started on the initial inventory and mapping file.
FlatNextRun ==
  /\ mainPc.pc = "done"
  /\ run = 1
  /\ run' = 2
  /\ flatEnd' = nb
  /\ nb' = W.inv
  /\ siteFile' = W.file
  /\ mainPc' = [pc |-> "submit", i |-> 1]
  /\ ctl' = [c \in Ctrls |-> NewCtl]
  /\ site' = [x \in SiteUnits |-> NewSite]
  /\ dev' = [u \in DevUnits |-> NewDev]
  /\ creates' = [u \in DevUnits |-> {}]
  /\ UNCHANGED <<world, faulted, mapVars, logVars, bootVars>>

\* The state before process_all_sites starts.
InitFlat ==
  /\ world = "flat"
  /\ run = 1
  /\ faulted = {}
  /\ mainPc = [pc |-> "flat", i |-> 1, sites |-> <<>>]
  /\ ctl = [c \in Ctrls |-> NewCtl]
  /\ site = [x \in SiteUnits |-> NewSite]
  /\ dev = [u \in DevUnits |-> NewDev]
  /\ nb = W.inv
  /\ creates = [u \in DevUnits |-> {}]
  /\ siteFile = W.file
  /\ mapIn = <<>>
  /\ mapOut = NotCalled
  /\ logFile = <<>>
  /\ parsed = <<>>
  /\ flatEnd = NotCalled
  /\ boot = NotCalled

NextFlat ==
  \/ FlatFetchSubmit
  \/ \E s \in SitesOf(1) : FlatStartFetch(s)
  \/ \E s \in SitesOf(1) : FlatFetched(s)
  \/ FlatFetchJoin
  \/ FlatSubmit
  \/ \E u \in DevUnits : FlatStartDevice(u)
  \/ FlatJoin
  \/ FlatNextRun
  \/ MainSubmit
  \/ MainJoin
  \/ \E c \in Ctrls : StartController(c)
  \/ \E c \in Ctrls : ControllerConnect(c)
  \/ \E c \in Ctrls : ControllerSubmit(c)
  \/ \E c \in Ctrls : ControllerJoin(c)
  \/ \E x \in SiteUnits : StartSite(x[1], x[2])
  \/ \E x \in SiteUnits : SiteFetch(x[1], x[2])
  \/ \E x \in SiteUnits : SiteSubmit(x[1], x[2])
  \/ \E x \in SiteUnits : SiteJoin(x[1], x[2])
  \/ \E u \in DevUnits : StartDevice(u)
  \/ \E u \in DevUnits : DevBegin(u)
  \/ \E u \in DevUnits : VrfGet(u)
  \/ \E u \in DevUnits : VrfCreate(u)
  \/ \E u \in DevUnits : DtGet(u)
  \/ \E u \in DevUnits : DtCreate(u)
  \/ \E u \in DevUnits : TmplCreate(u)
  \/ \E u \in DevUnits : DevGet(u)
  \/ \E u \in DevUnits : Fields(u)
  \/ \E u \in DevUnits : DevCreate(u)
  \/ \E u \in DevUnits : DevRetry(u)
  \/ \E u \in DevUnits : PrefixFilter(u)
  \/ \E u \in DevUnits : IfaceGet(u)
  \/ \E u \in DevUnits : IfaceCreate(u)
  \/ \E u \in DevUnits : IpGet(u)
  \/ \E u \in DevUnits : IpCreate(u)
  \/ \E u \in DevUnits : Save(u)
  \/ \E u \in DevUnits : ApiFault(u)
  \/ \E u \in DevUnits : RequestFault(u)

SpecFlat == InitFlat /\ [][NextFlat]_vars

(***************************************************************************)
(* The start-up of the program, main.py:580-683.                           *)
(*   boot: [pc, missing, netbox, fresh, exit, contacted, created, inflight] *)
(*   missing: what config.yaml or the environment lacks (at most one)      *)
(*   netbox:  "up", "down" (no answer) or "login" (it answers requests     *)
(*            without a token with 403); without a token NetBox refuses    *)
(*            every create                                                 *)
(*   fresh:   NetBox has neither the device roles nor the manufacturer     *)
(*   exit:    "none" while the process runs, then "zero" or "nonzero"      *)
(*   inflight: the device workers that hold a connection to NetBox         *)
(* An exception nothing catches ends the process with exit status 1.       *)
(***************************************************************************)
Exit(status) == [boot EXCEPT !.pc = "exited", !.exit = status]

\* main.py:594-620.  load_config raises FileNotFoundError; config[...][...]
\* raises KeyError on a missing key, which "except ValueError" does not
\* catch; os.getenv returns None for a variable that is not set and raises
\* nothing, so the handlers at 606 and 618 never run.
BootSettings ==
  /\ boot.pc = "settings"
  /\ boot' = IF boot.missing \cap {"config.yaml", "UNIFI.URLS", "NETBOX.URL"} # {}
             THEN Exit("nonzero")
             ELSE [boot EXCEPT !.pc = "connect"]
  /\ UNCHANGED <<orchVars, mapVars, logVars, flatVars>>

\* main.py:631-643: the first NetBox call, manufacturers.get, outside any
\* try; the tenant key (KeyError, not caught by "except ValueError"); the
\* tenant lookup.
BootConnect ==
  /\ boot.pc = "connect"
  /\ boot' = IF boot.netbox = "down" THEN Exit("nonzero")
             ELSE IF boot.netbox = "login" /\ "NETBOX_TOKEN" \in boot.missing
                  THEN Exit("nonzero")
             ELSE IF "NETBOX.TENANT" \in boot.missing THEN Exit("nonzero")
             ELSE [boot EXCEPT !.pc = "role_names"]
  /\ UNCHANGED <<orchVars, mapVars, logVars, flatVars>>

\* main.py:645-654: KeyError is caught, SystemExit(1).
BootRoleNames ==
  /\ boot.pc = "role_names"
  /\ boot' = IF boot.missing \cap {"NETBOX.ROLES.WIRELESS", "NETBOX.ROLES.LAN"} # {}
             THEN Exit("nonzero")
             ELSE [boot EXCEPT !.pc = "roles"]
  /\ UNCHANGED <<orchVars, mapVars, logVars, flatVars>>

\* main.py:656-665: the device roles are looked up and created when absent;
\* a refused create is a RequestError nothing catches.
BootRoles ==
  /\ boot.pc = "roles"
  /\ boot' = IF ~boot.fresh THEN [boot EXCEPT !.pc = "manufacturer"]
             ELSE IF "NETBOX_TOKEN" \in boot.missing THEN Exit("nonzero")
             ELSE [boot EXCEPT !.pc = "manufacturer", !.created = @ \cup {"device_role"}]
  /\ UNCHANGED <<orchVars, mapVars, logVars, flatVars>>

\* main.py:667-679: the sites are listed; the manufacturer is created when
\* the lookup at 636 found none.
BootManufacturer ==
  /\ boot.pc = "manufacturer"
  /\ boot' = IF ~boot.fresh THEN [boot EXCEPT !.pc = "process"]
             ELSE [boot EXCEPT !.pc = "process", !.created = @ \cup {"manufacturer"}]
  /\ UNCHANGED <<orchVars, mapVars, logVars, flatVars>>

\* main.py:682: process_all_controllers is called; it logs in to every
\* controller with the credentials read at 603-605 (None for a variable
\* that is not set).
BootProcess ==
  /\ boot.pc = "process"
  /\ boot' = [boot EXCEPT !.pc = "running", !.contacted = TRUE]
  /\ UNCHANGED <<orchVars, mapVars, logVars, flatVars>>

\* A device worker starts a NetBox call.  The workers in flight are bounded
\* by the three nested pools (main.py:412, 446, 469) only: the session's
\* HTTPAdapter (main.py:624) has pool_block at its default False, so a
\* request beyond pool_maxsize opens one more connection, which is
\* discarded after use.
BootAcquire ==
  /\ boot.pc = "running"
  /\ boot.inflight < MAX_CONTROLLER_THREADS * MAX_SITE_THREADS * MAX_DEVICE_THREADS
  /\ boot' = [boot EXCEPT !.inflight = @ + 1]
  /\ UNCHANGED <<orchVars, mapVars, logVars, flatVars>>

\* The NetBox call of a device worker returns.
BootRelease ==
  /\ boot.pc = "running"
  /\ boot.inflight > 0
  /\ boot' = [boot EXCEPT !.inflight = @ - 1]
  /\ UNCHANGED <<orchVars, mapVars, logVars, flatVars>>

\* main.py:683: process_all_controllers returns whatever failed
\* (main.py:461, 480) once no worker is left; the program ends.
BootReturn ==
  /\ boot.pc = "running"
  /\ boot.inflight = 0
  /\ boot' = Exit("zero")
  /\ UNCHANGED <<orchVars, mapVars, logVars, flatVars>>

\* The state when the program starts: at most one of the configuration
\* file, its keys (main.py:597, 612, 638, 646, 651) and the environment
\* variables (main.py:603, 604, 617) is missing.
InitBoot ==
  /\ InitOrch("stress_controllers")
  /\ siteFile = W.file
  /\ mapIn = <<>>
  /\ mapOut = NotCalled
  /\ logFile = <<>>
  /\ parsed = <<>>
  /\ flatEnd = NotCalled
  /\ boot \in [pc : {"settings"},
               missing : {{}} \cup {{k} : k \in
                  {"config.yaml", "UNIFI.URLS", "NETBOX.URL", "NETBOX.TENANT",
                   "NETBOX.ROLES.WIRELESS", "NETBOX.ROLES.LAN",
                   "UNIFI_USERNAME", "UNIFI_PASSWORD", "NETBOX_TOKEN"}},
               netbox : {"up", "down", "login"}, fresh : BOOLEAN,
               exit : {"none"}, contacted : {FALSE}, created : {{}}, inflight : {0}]

NextBoot ==
  \/ BootSettings
  \/ BootConnect
  \/ BootRoleNames
  \/ BootRoles
  \/ BootManufacturer
  \/ BootProcess
  \/ BootAcquire
  \/ BootRelease
  \/ BootReturn

SpecBoot == InitBoot /\ [][NextBoot]_vars


(***************************************************************************)
(* The site mapper on its own: get_netbox_site_name applied to a site name *)
(* under every configuration and mapping file of the bounded sets below.   *)
(***************************************************************************)
MapNames == {"hq", "lab"}

MapValues == {"HQ", "LAB"}

Mappings == UNION {[keys -> MapValues] : keys \in SUBSET MapNames}

Configs ==
  {NoConfig} \cup
  [unifi : {TRUE}, hasMappings : BOOLEAN, mappings : Mappings,
   hasUse : BOOLEAN, use : BOOLEAN]

SiteFiles == {NoSiteFile} \cup [exists : {TRUE}, ok : BOOLEAN, map : Mappings]

InitMap ==
  /\ InitOrch("stress_controllers")
  /\ siteFile \in SiteFiles
  /\ mapIn \in [name : MapNames \cup {"Default"}, config : Configs, file : {siteFile}]
  /\ mapOut = NotCalled
  /\ logFile = <<>>
  /\ parsed = <<>>
  /\ flatEnd = NotCalled
  /\ boot = NotCalled

\* main.py:98-111, one call; load_site_mapping may write the default file.
Resolve ==
  /\ mapOut = NotCalled
  /\ mapOut' = get_netbox_site_name(mapIn.name, mapIn.config, siteFile)
  /\ siteFile' = SiteFileAfterLoad(mapIn.config, siteFile)
  /\ UNCHANGED <<world, run, faulted, mainPc, ctl, site, dev, nb, creates, mapIn, logVars, flatVars, bootVars>>

NextMap == Resolve

SpecMap == InitMap /\ [][NextMap]_vars

(***************************************************************************)
(* The audit extractor, main.py:547-577.  A log line is its level and its  *)
(* message, a sequence of pieces of text; the formatter (main.py:181)      *)
(* writes "<asctime> - <LEVEL> - <message>".                               *)
(***************************************************************************)
WithId == " with ID "

Added == " successfully added to NetBox"

\* int(match.group(1)) of the pieces \d+ matches; -1 for any other piece.
IntOf(piece) ==
  CASE piece = "42" -> 42
    [] piece = "7" -> 7
    [] OTHER -> -1

\* main.py:181, the line the formatter writes.
Format(line) == <<"2024-01-01 00:00:00,000 - ", line.level \o " - ">> \o line.msg

\* main.py:568-569: "INFO - " in line, and the text after its first occurrence.
HasInfo(text) == \E i \in DOMAIN text : text[i] = "INFO - "

AfterInfo(text) ==
  LET first == Min({i \in DOMAIN text : text[i] = "INFO - "})
  IN  SubSeq(text, first + 1, Len(text))

\* Where "<keyword>.* with ID (\d+) successfully added to NetBox" can match
\* from the start of the text: the places of " with ID ".
IdPlaces(text, keyword) ==
  IF Len(text) = 0 \/ text[1] # keyword THEN {}
  ELSE {j \in 2..(Len(text) - 2) :
          /\ text[j] = WithId
          /\ IntOf(text[j + 1]) >= 0
          /\ text[j + 2] = Added}

\* main.py:562-563, 572-575: re.match and group(1); .* is greedy, so the
\* last place matches.  -1 when there is no match.
MatchId(text, keyword) ==
  LET places == IdPlaces(text, keyword)
  IN  IF places = {} THEN -1
      ELSE IntOf(text[(CHOOSE j \in places : \A k \in places : k <= j) + 1])

\* main.py:566-575, what one line appends to the two lists.
ParseLine(result, line) ==
  LET text == Format(line)
      log_content == AfterInfo(text)
  IN  IF ~HasInfo(text) THEN result
      ELSE IF MatchId(log_content, "Device ") >= 0
      THEN [result EXCEPT !.device = Append(@, MatchId(log_content, "Device "))]
      ELSE IF MatchId(log_content, "IP address ") >= 0
      THEN [result EXCEPT !.ip_address = Append(@, MatchId(log_content, "IP address "))]
      ELSE result

RECURSIVE ParseLines(_, _)
ParseLines(result, lines) ==
  IF lines = <<>> THEN result
  ELSE ParseLines(ParseLine(result, Head(lines)), Tail(lines))

\* main.py:547-577
parse_successful_log_entries(log_file) ==
  ParseLines([device |-> <<>>, ip_address |-> <<>>], log_file)

\* main.py:268, 322, 371, 387: the message process_device logs after the
\* create of a record of the kind, with the ID NetBox gave the record.
SuccessLine(kind, id) ==
  (CASE kind = "device_type" -> <<"Device ", "type U6">>
     [] kind = "device" -> <<"Device ", "ap serial S1">>
     [] kind = "interface" -> <<"Interface ", "vlan.1">>
     [] kind = "ip_address" -> <<"IP address ", "10.0.0.5/24">>)
  \o <<WithId, id, Added, ".">>

LogHeads == {<<"Device ">>, <<"Device ", "ap serial S1">>, <<"Device ", "type U6">>,
             <<"IP address ", "10.0.0.5/24">>, <<"Interface ", "vlan.1">>}

LogTails == {<<WithId, "42", Added>>, <<WithId, "7">>,
             <<WithId, "42", Added, ".">>, <<WithId, "7", Added, ".">>,
             <<WithId, "42", Added, WithId, "7", Added, ".">>}

LogFiles ==
  LET LogMessages == {pre \o head \o tail : pre \in {<<>>, <<"INFO - ">>},
                                            head \in LogHeads, tail \in LogTails}
  IN  UNION {[1..n -> [level : {"INFO", "WARNING"}, msg : LogMessages]]
             : n \in 0..MaxLogLines}

InitLog ==
  /\ InitOrch("stress_controllers")
  /\ siteFile = W.file
  /\ mapIn = <<>>
  /\ mapOut = NotCalled
  /\ logFile \in LogFiles
  /\ parsed = <<>>
  /\ flatEnd = NotCalled
  /\ boot = NotCalled

Parse ==
  /\ parsed = <<>>
  /\ parsed' = <<parse_successful_log_entries(logFile)>>
  /\ UNCHANGED <<world, run, faulted, mainPc, ctl, site, dev, nb, creates, siteFile,
                 mapVars, logFile, flatVars, bootVars>>

NextLog == Parse

SpecLog == InitLog /\ [][NextLog]_vars


(***************************************************************************)
(* Properties of the run.                                                  *)
(***************************************************************************)
RunDone == mainPc.pc = "done"

\* The site units process_controller has to submit, and the device units
\* process_site has to submit: the controller answers, the site resolves to
\* a NetBox site, the site's devices are listed.
Matched(c, s) ==
  match_sites_to_netbox(W.ctrls[c].sites[s].name, W.nbSites,
                        W.config, W.file) # NoKey

DueSites == {x \in SiteUnits : W.ctrls[x[1]].ok /\ Matched(x[1], x[2])}

DueDevices ==
  {u \in DevUnits : <<u[1], u[2]>> \in DueSites
                    /\ W.ctrls[u[1]].sites[u[2]].fetch = "ok"}

SameSite(u, v) == u[1] = v[1] /\ u[2] = v[2]

\* An exception process_device raises by itself, whatever its siblings do:
\* the schema exposes no role field, a lookup finds several records, or
\* the IP address of the device is assigned to another device.
OwnError(u) ==
  \/ W.roleField = "neither"
  \/ \E x, y \in nb.devices : x.id # y.id /\ x.site = y.site /\ x.serial = y.serial
  \/ \E x, y \in nb.ip_addresses : x.id # y.id /\ x.address = y.address /\ x.vrf = y.vrf
  \/ \E a \in nb.ip_addresses : \E x \in nb.interfaces : \E d \in nb.devices :
       /\ a.address = Rec(u).ip /\ x.id = a.interface /\ d.id = x.device
       /\ ~(d.site = NbSite(u) /\ d.serial = Rec(u).serial)

\* C1: when exactly one device reconciliation of a run fails with a fatal
\* error of a NetBox call, every other device the run has to reconcile (same
\* site, other sites, other controllers) is started once and runs to its own
\* outcome: none is cancelled, left unprocessed, or ended by that error.
C1_Isolation ==
  (RunDone /\ Cardinality(FaultsThisRun) = 1) =>
    \A u \in DueDevices \ FaultsThisRun :
      /\ dev[u].pc = "done"
      /\ dev[u].n = 1
      /\ dev[u].out \notin {"", "cancelled"}
      /\ dev[u].out = "error" => OwnError(u)

C1_Witness ==
  /\ RunDone
  /\ Cardinality(FaultsThisRun) = 1
  /\ \E f \in FaultsThisRun : \E u \in DueDevices :
       u # f /\ SameSite(u, f) /\ dev[f].out = "error" /\ dev[u].out = "ok"

\* C2: a second run against the same controller data and the inventory the
\* first run left (no call failing by a fault) issues no create call.
C2_Idempotent ==
  (run = 2 /\ faulted = {}) => \A u \in DevUnits : creates[u] = {}

\* C3: at most 5 controllers, 8 sites per controller and 8 devices per site
\* are being processed at once, hence at most 320 device reconciliations.
C3_BoundedPools ==
  /\ Cardinality(CtlBusy) <= 5
  /\ \A c \in Ctrls : Cardinality(SiteBusy(c)) <= 8
  /\ \A x \in SiteUnits : Cardinality(DevBusy(x[1], x[2])) <= 8
  /\ Cardinality({u \in DevUnits : dev[u].pc \notin {"new", "queued", "done"}}) <= 320

C3_Witness ==
  \E x \in SiteUnits :
    /\ Cardinality(DevBusy(x[1], x[2])) = 8
    /\ \E k \in DevicesOf(x[1], x[2]) : dev[<<x[1], x[2], k>>].pc = "queued"

\* C4: a tier is complete only when every unit submitted to it has finished:
\* a finished site has no device queued or running, a finished controller no
\* unfinished site, a finished run no unfinished controller, site or device.
C4_TierBarrier ==
  /\ \A u \in DevUnits :
       site[<<u[1], u[2]>>].pc = "done" => dev[u].pc \in {"new", "done"}
  /\ \A x \in SiteUnits : ctl[x[1]].pc = "done" => site[x].pc \in {"new", "done"}
  /\ RunDone => /\ \A c \in Ctrls : ctl[c].pc = "done"
                /\ \A x \in SiteUnits : site[x].pc \in {"new", "done"}
                /\ \A u \in DevUnits : dev[u].pc \in {"new", "done"}

C4_Witness ==
  /\ RunDone
  /\ \E u, v \in DevUnits :
       u # v /\ SameSite(u, v) /\ dev[u].out = "ok" /\ dev[v].out = "no_prefix"

\* C5: in a finished run every controller was processed, every site of an
\* answering controller that matches a NetBox site was processed, and every
\* device such a site lists was started exactly once, whatever failed.
C5_EveryUnitAttempted ==
  /\ \A u \in DevUnits : dev[u].n <= 1
  /\ RunDone => /\ \A c \in Ctrls : ctl[c].pc = "done"
                /\ \A x \in DueSites : site[x].pc = "done"
                /\ \A u \in DueDevices : dev[u].pc = "done" /\ dev[u].n = 1

C5_Witness ==
  /\ RunDone
  /\ \E c \in Ctrls : ~W.ctrls[c].ok
  /\ \E x \in SiteUnits \ DueSites : W.ctrls[x[1]].ok
  /\ \E u \in DueDevices : dev[u].out = "error"
  /\ \E u \in DueDevices : dev[u].out = "ok"

\* C6: the reconciliation of a device record whose serial is absent or
\* empty issues no create call.
C6_NoSerialNoCreate ==
  \A u \in DevUnits : Rec(u).serial \in {NoKey, ""} => creates[u] = {}

C6_Witness ==
  /\ \E u \in DevUnits : Rec(u).serial = "" /\ dev[u].out = "no_serial"
  /\ nb.devices # {}


\* The InventoryDevices of the serial of unit u at its NetBox site.
DeviceOf(u) == {x \in nb.devices : x.site = NbSite(u) /\ x.serial = Rec(u).serial}

\* Unit u issued the device create in this run, and its create step is over
\* without a fault.
CreateTried(u) ==
  /\ "device" \in creates[u]
  /\ dev[u].pc # "dev_retry"
  /\ u \notin FaultsThisRun

Collide(u, v) ==
  /\ u # v
  /\ NbSite(u) = NbSite(v)
  /\ Rec(u).name = Rec(v).name
  /\ Rec(u).serial # Rec(v).serial

NewDeviceOutsidePrefixes(u) ==
  /\ dev[u].pc = "done"
  /\ u \notin FaultsThisRun
  /\ "device" \in creates[u]
  /\ dev[u].out # "device_failed"
  /\ Rec(u).ip # InvalidIP
  /\ \A v \in VrfsNamed(VrfName(NbSite(u))) : PrefixesFor(Rec(u).ip, v.id) = {}

C11_ControllerContained ==
  /\ \A x \in SiteUnits : ~W.ctrls[x[1]].ok => site[x].pc = "new"
  /\ \A u \in DevUnits : ~W.ctrls[u[1]].ok => dev[u].pc = "new" /\ creates[u] = {}
  /\ RunDone => /\ \A c \in Ctrls : ctl[c].pc = "done"
                /\ \A x \in DueSites : site[x].pc = "done"
                /\ \A u \in DueDevices : dev[u].pc = "done" /\ dev[u].n = 1

C11_Witness ==
  /\ RunDone
  /\ \E u \in DevUnits : ~W.ctrls[u[1]].ok /\ Rec(u).serial = "S4"
  /\ \E u \in DueDevices : dev[u].out = "ok" /\ "device" \in creates[u]

\* C13: at most one VRF of the name of a site is created, and the devices of
\* a site are all bound to the same VRF.
C13_OneVrfPerSite ==
  /\ \A s \in W.nbSites : Cardinality(VrfsNamed(VrfName(s)) \ W.inv.vrfs) <= 1
  /\ \A x, y \in nb.interfaces :
       (\E d, e \in nb.devices : d.id = x.device /\ e.id = y.device /\ d.site = e.site)
         => x.vrf = y.vrf

\* C14: no two InventoryDevices have the same site and serial.
C14_NoDuplicateDevice ==
  \A x, y \in nb.devices : (x.site = y.site /\ x.serial = y.serial) => x.id = y.id

\* C12: when a required configuration key or environment credential is
\* missing, no controller is contacted, no inventory entity is created and
\* the process ends with a non-zero exit; the process ends with a non-zero
\* exit for no other reason.
C12_ConfigErrorsFatal ==
  /\ boot.missing # {} =>
       /\ ~boot.contacted
       /\ boot.created = {}
       /\ boot.pc = "exited" => boot.exit = "nonzero"
  /\ (boot.pc = "exited" /\ boot.exit = "nonzero") => boot.missing # {}

\* C15: with no call failing, process_all_controllers leaves, from the same
\* controller data, initial inventory and site mapping configuration, an
\* inventory that holds what the one process_all_sites left holds: whatever
\* the ids, the names of the VRFs, the models of the device types, the
\* (site, serial) of the devices and of the devices with an interface, and
\* the IP addresses.
C15_SameFinalInventory ==
  LET Holding(inv) ==
        [vrfs |-> {v.name : v \in inv.vrfs},
         device_types |-> {t.model : t \in inv.device_types},
         devices |-> {<<d.site, d.serial>> : d \in inv.devices},
         interfaces |-> {<<d.site, d.serial>> :
                           d \in {e \in inv.devices :
                                    \E x \in inv.interfaces : x.device = e.id}},
         ip_addresses |-> {<<a.address, a.len>> : a \in inv.ip_addresses}]
  IN  (run = 2 /\ RunDone /\ faulted = {}) => Holding(nb) = Holding(flatEnd)

\* The VRF lookup of unit u reports several matches: the inventory held
\* several VRFs of the name of its site before the first run.
Ambiguous(u) ==
  /\ NbSite(u) # ""
  /\ Cardinality({v \in W.inv.vrfs : v.name = VrfName(NbSite(u))}) > 1

FirstVrf(u) == Min({v.id : v \in {w \in W.inv.vrfs : w.name = VrfName(NbSite(u))}})

\* C16: when the VRF lookup reports several matches, the reconciliation
\* issues no VRF create, uses the first VRF, and goes on: unless a call
\* fails it ends at the device that exists, the invalid IP, or with the
\* device, the interface in the first VRF and the IP address in place.
C16_AmbiguousVrf ==
  \A u \in DevUnits :
    (Ambiguous(u) /\ Rec(u).name # NoKey /\ Rec(u).serial \notin {NoKey, ""}) =>
      /\ "vrf" \notin creates[u]
      /\ dev[u].vrf \in {0, FirstVrf(u)}
      /\ (dev[u].pc = "done" /\ u \notin FaultsThisRun) =>
           /\ dev[u].out \in {"ok", "exists", "invalid_ip"}
           /\ DeviceOf(u) # {}
           /\ \A d \in DeviceOf(u) : \A x \in InterfacesOf(d.id) : x.vrf = FirstVrf(u)

C16_Witness ==
  \E u \in DevUnits :
    /\ Ambiguous(u)
    /\ dev[u].out = "ok"
    /\ creates[u] = {"device_type", "interface_template", "device", "interface", "ip_address"}
    /\ \E d \in DeviceOf(u) : d.primary_ip4 # 0

\* C17: a created device carries its role under "role" when the schema
\* exposes "role", otherwise under "device_role"; when the schema exposes
\* neither, no device, interface or IP address is created, a reconciliation
\* that gets to the device create ends with an error, and the run goes on
\* to its end with every due device processed.
C17_RoleField ==
  /\ \A x \in nb.devices :
       x.role_key = IF W.roleField \in {"role", "both"} THEN "role" ELSE "device_role"
  /\ W.roleField = "neither" =>
       /\ nb.devices = {} /\ nb.interfaces = {} /\ nb.ip_addresses = {}
       /\ \A u \in DevUnits :
            /\ creates[u] \cap {"device", "interface", "ip_address"} = {}
            /\ (dev[u].pc = "done" /\ dev[u].n = 1 /\ Rec(u).name # NoKey
                /\ Rec(u).serial \notin {NoKey, ""})
                 => dev[u].out \in {"error", "dt_failed"}
       /\ RunDone => \A u \in DueDevices : dev[u].pc = "done" /\ dev[u].n = 1

C17_Witness ==
  /\ RunDone
  /\ W.roleField = "neither"
  /\ FaultsThisRun = {}
  /\ \E u, v \in DueDevices :
       u # v /\ dev[u].out = "error" /\ dev[v].out = "error"
       /\ "device_type" \in creates[u] /\ "device_type" \in creates[v]

\* C18: a reconciliation issues at most two device create calls, the
\* second only after the first was refused for the name and only with the
\* name <name>_<serial>; after a second failure, or a first failure for
\* any other reason, no interface and no IP address is created.
C18_RetryOnce ==
  \A u \in DevUnits :
    LET tries == dev[u].tries
    IN  /\ Len(tries) <= 2
        /\ Len(tries) >= 1 => tries[1].name = Rec(u).name
        /\ Len(tries) = 2 =>
             /\ tries[1].res = "name_conflict"
             /\ tries[2].name = Rec(u).name \o "_" \o Rec(u).serial
        /\ (tries # <<>> /\ tries[Len(tries)].res # "created") =>
             /\ creates[u] \cap {"interface", "ip_address"} = {}
             /\ dev[u].pc \in {"dev_retry", "done"}
             /\ dev[u].pc = "dev_retry" => Len(tries) = 1 /\ tries[1].res = "name_conflict"

C18_Witness ==
  \E u \in DevUnits :
    /\ Len(dev[u].tries) = 2
    /\ dev[u].tries[2].res = "refused"
    /\ dev[u].out = "device_failed"

\* The ports of unit u whose template create was refused.
FailedPorts(u) == {j \in DOMAIN Rec(u).ports : TmplFailed(j) \in dev[u].marks}

\* C19: after a refused device type create nothing more is created for the
\* device; after a refused template create the reconciliation goes on:
\* unless an exception ends it, the template of every other GE port of the
\* device is created and the device is looked up and created.
C19_TypeAndTemplateFailure ==
  \A u \in DevUnits :
    /\ dev[u].out = "dt_failed" =>
         creates[u] \cap {"interface_template", "device", "interface", "ip_address"} = {}
    /\ (FailedPorts(u) # {} /\ dev[u].pc = "done" /\ dev[u].out # "error") =>
         /\ \A j \in DOMAIN Rec(u).ports \ FailedPorts(u) :
              Rec(u).ports[j].media = "GE" =>
                \E t \in nb.interface_templates, m \in nb.device_types :
                  m.model = Rec(u).model /\ t.device_type = m.id
                  /\ t.name = Rec(u).ports[j].name
         /\ "device" \in creates[u]

C19_Witness ==
  \E u \in DevUnits :
    /\ FailedPorts(u) = {2}
    /\ u \notin FaultsThisRun
    /\ dev[u].out = "ok"
    /\ \E t \in nb.interface_templates : t.name = "p2"

\* C20: for a device whose IP is no IP address the prefixes are never
\* looked up, no interface and no IP address is created and no primary IP
\* is set; the device is rejected after its InventoryDevice was created.
C20_InvalidIp ==
  \A u \in DevUnits :
    Rec(u).ip = InvalidIP =>
      /\ "prefix_lookup" \notin dev[u].marks
      /\ creates[u] \cap {"interface", "ip_address"} = {}
      /\ dev[u].pc \notin {"prefix", "iface_get", "iface_create", "ip_get", "ip_create", "save"}
      /\ NbSite(u) # "" => \A d \in DeviceOf(u) : d.primary_ip4 = 0 /\ InterfacesOf(d.id) = {}
      /\ dev[u].out = "invalid_ip" =>
           /\ "device" \in creates[u]
           /\ DeviceOf(u) # {}

C20_Witness ==
  \E u \in DevUnits :
    /\ Rec(u).ip = InvalidIP
    /\ dev[u].out = "invalid_ip"
    /\ \E d \in DeviceOf(u) : d.name = "sw"

\* C21: a reconciliation issues a create call for a VRF, a device type, a
\* device, an interface or an IP address only after its own lookup of that
\* entity found none, and never after a lookup that found one.
C21_LookupBeforeCreate ==
  \A u \in DevUnits :
    \A kind \in {"vrf", "device_type", "device", "interface", "ip_address"} :
      /\ kind \in creates[u] => (kind \o "_absent") \in dev[u].marks
      /\ (kind \o "_found") \in dev[u].marks => kind \notin creates[u]

C21_Witness ==
  \E u, v \in DevUnits :
    /\ dev[u].out = "ok"
    /\ "vrf_found" \in dev[u].marks
    /\ creates[u] = {"device_type", "interface_template", "device", "interface", "ip_address"}
    /\ "device_type_found" \in dev[v].marks
    /\ "device" \in creates[v]

\* C22: the device workers that hold a connection to NetBox are never
\* more than the connection pool of the session is configured for.
C22_PoolCoversFanOut == boot.inflight <= POOL_MAXSIZE

\* C23: a reconciliation whose lookup finds the device of its (site,
\* serial) issues no create call for a device, an interface or an IP
\* address, and no step of it changes a device of that site and serial
\* (its name, its primary IP), whatever the device lacks.
C23_ExistingUntouched ==
  /\ [](\A u \in DevUnits :
          "device_found" \in dev[u].marks =>
            creates[u] \cap {"device", "interface", "ip_address"} = {})
  /\ [][\A u \in DevUnits :
          ("device_found" \in dev'[u].marks /\ dev'[u] # dev[u]) =>
            {d \in nb'.devices : d.site = NbSite(u) /\ d.serial = Rec(u).serial}
              = {d \in nb.devices : d.site = NbSite(u) /\ d.serial = Rec(u).serial}]_vars

C23_Witness ==
  \E u \in DevUnits :
    /\ run = 2
    /\ dev[u].out = "exists"
    /\ "device_found" \in dev[u].marks
    /\ \E d \in DeviceOf(u) : d.primary_ip4 = 0 /\ InterfacesOf(d.id) = {}
    /\ \E v \in VrfsNamed(VrfName(NbSite(u))) : PrefixesFor(Rec(u).ip, v.id) # {}

C25_NoDeviceLost ==
  (RunDone /\ FaultsThisRun = {} /\ W.roleField # "neither") =>
    \A u \in DueDevices :
      (Rec(u).name # NoKey /\ Rec(u).serial \notin {NoKey, ""}) => DeviceOf(u) # {}

\* C27: every run of process_all_controllers that has started returns, and
\* when it returns no unit of the three pools is left queued or running,
\* also with more controllers, sites or devices than workers.
C27_Terminates ==
  /\ (mainPc.pc = "submit") ~> RunDone
  /\ [](RunDone =>
          /\ \A c \in Ctrls : ctl[c].pc = "done"
          /\ \A x \in SiteUnits : site[x].pc \in {"new", "done"}
          /\ \A u \in DevUnits : dev[u].pc \in {"new", "done"})

C27_Witness ==
  /\ RunDone
  /\ run = MaxRuns
  /\ Cardinality(DevUnits) > MAX_DEVICE_THREADS
  /\ \A u \in DevUnits : dev[u].pc = "done" /\ dev[u].n = 1

(***************************************************************************)
(* Properties of the site mapper.                                          *)
(***************************************************************************)
InlineOf(config) ==
  IF config.unifi /\ config.hasMappings THEN config.mappings ELSE EmptyMap

FileEnabled(config) == config.unifi /\ config.hasUse /\ config.use

FileOf(file) == IF file.exists /\ file.ok THEN file.map ELSE EmptyMap

\* C9: the resolved name of n is c[n] if n is a key of the inline mapping c,
\* otherwise f[n] if file mapping is enabled and n is a key of the file
\* mapping f, otherwise n.
C9_Layered ==
  mapOut # NotCalled =>
    LET n == mapIn.name
        c == InlineOf(mapIn.config)
        f == FileOf(mapIn.file)
    IN  mapOut = IF n \in DOMAIN c THEN c[n]
                 ELSE IF FileEnabled(mapIn.config) /\ n \in DOMAIN f THEN f[n]
                 ELSE n

C9_Witness ==
  /\ mapOut # NotCalled
  /\ FileEnabled(mapIn.config)
  /\ mapIn.name \in DOMAIN InlineOf(mapIn.config) \cap DOMAIN FileOf(mapIn.file)
  /\ InlineOf(mapIn.config)[mapIn.name] # FileOf(mapIn.file)[mapIn.name]
  /\ mapOut = InlineOf(mapIn.config)[mapIn.name]

(***************************************************************************)
(* Properties of the audit extractor.                                      *)
(***************************************************************************)
\* The IDs, in file order, of the INFO lines whose message starts with the
\* keyword and goes on "... with ID <N> successfully added to NetBox".
RECURSIVE InfoIds(_, _)
InfoIds(lines, keyword) ==
  IF lines = <<>> THEN <<>>
  ELSE LET line == Head(lines)
       IN  (IF line.level = "INFO" /\ MatchId(line.msg, keyword) >= 0
            THEN <<MatchId(line.msg, keyword)>> ELSE <<>>)
           \o InfoIds(Tail(lines), keyword)

\* C10: the extractor returns under "device" the IDs of the INFO lines whose
\* message starts with "Device", under "ip address" those of the INFO lines
\* whose message starts with "IP address", in file order; no other line
\* contributes.
C10_AuditExtraction ==
  parsed # <<>> =>
    /\ parsed[1].device = InfoIds(logFile, "Device ")
    /\ parsed[1].ip_address = InfoIds(logFile, "IP address ")

\* The creates of a run in the order of their log lines, and the log file
\* the run writes for them.
RunEvents ==
  [kind : {"device_type", "device", "interface", "ip_address"}, id : {"42", "7"}]

RunLog(events) ==
  [i \in DOMAIN events |-> [level |-> "INFO", msg |-> SuccessLine(events[i].kind, events[i].id)]]

CreatedIds(events, kind) ==
  LET of == SelectSeq(events, LAMBDA e : e.kind = kind)
  IN  [i \in DOMAIN of |-> IntOf(of[i].id)]

\* C26: from the log file of a run the extractor returns under "device" the
\* IDs of the devices the run created and no ID of a device type, and
\* under "ip address" the IDs of the IP addresses the run created.
C26_AuditMatchesRun ==
  parsed # <<>> =>
    \A events \in UNION {[1..n -> RunEvents] : n \in 0..MaxLogLines} :
      logFile = RunLog(events) =>
        /\ parsed[1].device = CreatedIds(events, "device")
        /\ parsed[1].ip_address = CreatedIds(events, "ip_address")

====
